---- MODULE Spec2Model ----
(***************************************************************************)
(* Guarded action authorization of lambda/lambda_handler.py: the           *)
(* confirmation-token store (DynamoDB table ec2-confirmation-tokens), the  *)
(* audit log (table ec2-management-actions), the backup gate and the       *)
(* handlers terminate_ec2_instance, delete_ebs_volume and                  *)
(* change_instance_type, against an EC2 backend whose calls may raise      *)
(* ClientError and DynamoDB tables whose calls may raise.                  *)
(*                                                                         *)
(* Spec      : requests run one after another, each handler one step.      *)
(* SpecConc  : as Spec, plus two workers running delete_ebs_volume with a  *)
(*             token, interleaved at every table and backend call.         *)
(* SpecGuards: launch, resize, backup status and unknown-action requests.  *)
(* SpecLive  : delete_volume requests, the clock and the TTL sweep, fair.  *)
(* SpecOps   : start, stop and detach requests, requests that lack their   *)
(*             argument, and get_action_logs.                              *)
(***************************************************************************)
EXTENDS Integers, Sequences, FiniteSets, TLC

VARIABLES now, confirmation_table, action_log_table, instances, images,
          volumes, issued, served, last, workers

vars == <<now, confirmation_table, action_log_table, instances, images,
          volumes, issued, served, last, workers>>

(***************************************************************************)
(* Bounds of the model.                                                    *)
(***************************************************************************)
\* clock ticks in one second: time.time() is a float, int() truncates it
TicksPerSecond == 3
\* requests served in one behaviour
MaxRequests == 3
\* calls that raise inside one request
MaxFaults == 1
\* requests of one behaviour that are run again with other audit outcomes
AuditedRequests == 2

(***************************************************************************)
(* Program constants.                                                      *)
(***************************************************************************)
\* int(time.time() + 300): token lifetime in seconds
TOKEN_TTL_SECONDS == 300
\* timedelta(days=7): freshness window of an AMI backup
RECENT_BACKUP_DAYS == 7
\* MAX_INSTANCE_COST_PER_HOUR, read from the environment when the module
\* loads (default 1.0); here configured to 0.10 USD, in 1/10000 USD
MAX_INSTANCE_COST_PER_HOUR == 1000

Instances == {"i-1", "i-2"}
Volumes == {"vol-1", "vol-2"}
\* the instance types a resize may ask for: one within budget, one above it
InstanceTypes == {"t3.small", "m5.xlarge"}

\* the instance types a launch may ask for: within budget, above it, and one
\* that INSTANCE_PRICING does not list
LaunchTypes == {"t3.nano", "m5.large", "c5.xlarge", "m5.4xlarge", "x9.unlisted"}
\* the instance id run_instances gives out
NewInstances == {"i-3"}
\* os.environ['CURRENT_USER_EMAIL'], set by lambda_handler from the request
CURRENT_USER_EMAIL == "user@example.com"
\* the ages, in days, of the backups describe_images may report
BackupAges == {6, 7, 10}

\* Python's None, as a token value
None == <<>>

\* the calls of one request that may raise
Faults == {"describe", "describe_images", "create_image", "put_item",
           "get_item", "delete_item", "backend", "log_put_item",
           "backup_log_put_item", "scan"}
\* the sets of calls that raise in one request, among those a handler makes
FaultSets(made) == {f \in SUBSET (Faults \intersect made) : Cardinality(f) <= MaxFaults}
TerminateFaults == {"describe", "describe_images", "put_item", "get_item",
                    "delete_item", "backend", "log_put_item"}
DeleteFaults == {"describe", "put_item", "get_item", "delete_item", "backend",
                 "log_put_item"}
ResizeFaults == {"describe", "create_image", "put_item", "get_item",
                 "delete_item", "backend", "log_put_item",
                 "backup_log_put_item"}

(***************************************************************************)
(* Values.                                                                 *)
(***************************************************************************)
\* int(x) of a clock reading x given in ticks
int(t) == t \div TicksPerSecond

\* a dict compared with ==: its key/value pairs, whatever their order
dict(parameters) == {parameters[k] : k \in 1..Len(parameters)}

\* json.dumps of a parameter dict: the text, as the sequence of the keys and
\* values it spells out, in insertion order
json_dumps(parameters) ==
    [k \in 1..(2 * Len(parameters)) |->
        parameters[(k + 1) \div 2][IF k % 2 = 1 THEN 1 ELSE 2]]

\* json.loads of a stored parameter string: the dict it spells out
json_loads(s) == {<<s[2 * k - 1], s[2 * k]>> : k \in 1..(Len(s) \div 2)}

\* a dict literal, as the sequence of its key/value pairs
InstanceParams(instance_id) == << <<"instance_id", instance_id>> >>
VolumeParams(volume_id) == << <<"volume_id", volume_id>> >>
ResizeParams(instance_id, new_type) ==
    << <<"instance_id", instance_id>>, <<"new_type", new_type>> >>

\* hashlib.sha256(f"{action}:{json.dumps(parameters)}:{time.time()}")[:12]:
\* a function of the action, the parameters and the clock reading alone
TokenValue(action, parameters, t) == <<action, json_dumps(parameters), t>>

\* INSTANCE_PRICING.get(instance_type, 0), in 1/10000 USD per hour
INSTANCE_PRICING(instance_type) ==
    CASE instance_type = "t3.nano" -> 52
      [] instance_type = "t3.micro" -> 104
      [] instance_type = "t3.small" -> 208
      [] instance_type = "t3.medium" -> 416
      [] instance_type = "t3.large" -> 832
      [] instance_type = "t3.xlarge" -> 1664
      [] instance_type = "t3.2xlarge" -> 3328
      [] instance_type = "t2.micro" -> 116
      [] instance_type = "t2.small" -> 230
      [] instance_type = "t2.medium" -> 464
      [] instance_type = "t2.large" -> 928
      [] instance_type = "m5.large" -> 960
      [] instance_type = "m5.xlarge" -> 1920
      [] instance_type = "m5.2xlarge" -> 3840
      [] instance_type = "m5.4xlarge" -> 7680
      [] instance_type = "c5.large" -> 850
      [] instance_type = "c5.xlarge" -> 1700
      [] instance_type = "c5.2xlarge" -> 3400
      [] instance_type = "r5.large" -> 1260
      [] instance_type = "r5.xlarge" -> 2520
      [] instance_type = "r5.2xlarge" -> 5040
      [] OTHER -> 0

(***************************************************************************)
(* DynamoDB tables.                                                        *)
(***************************************************************************)
\* Table.put_item: the item replaces the one with the same key
put_item(table, item) == {x \in table : x.token # item.token} \union {item}

\* Table.get_item: the items stored under the key (none or one)
get_item(table, token) == {x \in table : x.token = token}

\* the item is left in the table
delete_item_kept(table, token) == table

\* Table.delete_item
delete_item(table, token) == {x \in table : x.token # token}

\* the item generate_confirmation_token stores at clock reading t
TokenItem(action, parameters, t) ==
    [token |-> TokenValue(action, parameters, t),
     action |-> action,
     parameters |-> json_dumps(parameters),
     created_at |-> t,
     expires_at |-> int(t + TOKEN_TTL_SECONDS * TicksPerSecond),
     ttl |-> int(t + TOKEN_TTL_SECONDS * TicksPerSecond)]

\* generate_confirmation_token: the token, or None when put_item raises
generate_confirmation_token(table, action, parameters, t, faults) ==
    IF "put_item" \in faults
    THEN [token |-> None, table |-> table]
    ELSE [token |-> TokenValue(action, parameters, t),
          table |-> put_item(table, TokenItem(action, parameters, t))]

\* verify_confirmation_token read by one caller: get_item, the expiry test,
\* delete_item and the result, with the table it leaves
verify_confirmation_token(table, token, t, faults) ==
    LET found == get_item(table, token)
        token_data == CHOOSE x \in found : TRUE
        failed == [valid |-> FALSE, kind |-> "error", error |-> "StoreError",
                   action |-> "", parameters |-> {}, table |-> table]
    IN  IF "get_item" \in faults THEN failed
        ELSE IF found = {}
        THEN [valid |-> FALSE, kind |-> "not_found",
              error |-> "Invalid confirmation token",
              action |-> "", parameters |-> {}, table |-> table]
        ELSE IF int(t) > token_data.expires_at
        THEN IF "delete_item" \in faults THEN failed
             ELSE [valid |-> FALSE, kind |-> "expired",
                   error |-> "Token expired (5 min limit)",
                   action |-> "", parameters |-> {},
                   table |-> delete_item(table, token)]
        ELSE IF "delete_item" \in faults THEN failed
        ELSE [valid |-> TRUE, kind |-> "valid", error |-> "",
              action |-> token_data.action,
              parameters |-> json_loads(token_data.parameters),
              table |-> delete_item(table, token)]

\* the record is put under a key made from the action name: it replaces the
\* record that action already has
log_action_keyed_by_action(log, action, parameters, status, error, user_email, raises) ==
    LET same == {n \in 1..Len(log) : log[n].action = action}
        n == CHOOSE m \in same : TRUE
        item(log_id) == [log_id |-> log_id,
                         timestamp |-> Len(log) + 1,
                         action |-> action,
                         parameters |-> json_dumps(parameters),
                         status |-> status,
                         error |-> error,
                         user_email |-> IF user_email = "" THEN "anonymous"
                                        ELSE user_email]
    IN  IF raises THEN log
        ELSE IF same = {} THEN Append(log, item(Len(log) + 1))
        ELSE [log EXCEPT ![n] = item(n)]

\* a failure is reported to the caller and not recorded
log_action_failures_dropped(log, action, parameters, status, error, user_email, raises) ==
    IF raises \/ status = "failed"
    THEN log
    ELSE Append(log, [log_id |-> Len(log) + 1,
                      timestamp |-> Len(log) + 1,
                      action |-> action,
                      parameters |-> json_dumps(parameters),
                      status |-> status,
                      error |-> error,
                      user_email |-> IF user_email = "" THEN "anonymous"
                                     ELSE user_email])

\* log_action: the record put in the audit table under a fresh log_id; its
\* timestamp is datetime.now() at the call, given by its rank among the
\* instants log_action has read (a later call reads a later instant). A
\* put_item that raises is swallowed and leaves the table as it was
log_action(log, action, parameters, status, error, user_email, raises) ==
    IF raises
    THEN log
    ELSE Append(log, [log_id |-> Len(log) + 1,
                      timestamp |-> Len(log) + 1,
                      action |-> action,
                      parameters |-> json_dumps(parameters),
                      status |-> status,
                      error |-> error,
                      user_email |-> IF user_email = "" THEN "anonymous"
                                     ELSE user_email])

\* the monthly cost is what is compared with the ceiling
check_budget_limits_monthly(instance_type) ==
    LET hourly_cost == INSTANCE_PRICING(instance_type)
    IN  [allowed |-> ~(hourly_cost * 730 > MAX_INSTANCE_COST_PER_HOUR),
         hourly_cost |-> hourly_cost,
         monthly_cost |-> hourly_cost * 730]

\* every instance type is allowed
check_budget_limits_unchecked(instance_type) ==
    LET hourly_cost == INSTANCE_PRICING(instance_type)
    IN  [allowed |-> TRUE,
         hourly_cost |-> hourly_cost,
         monthly_cost |-> hourly_cost * 730]

\* check_budget_limits
check_budget_limits(instance_type) ==
    LET hourly_cost == INSTANCE_PRICING(instance_type)
    IN  [allowed |-> ~(hourly_cost > MAX_INSTANCE_COST_PER_HOUR),
         hourly_cost |-> hourly_cost,
         monthly_cost |-> hourly_cost * 730]

\* no 'latest_ami' key in the result
NoAmi == -1

\* amis.sort(key=CreationDate, reverse=True): the backups of an instance,
\* each given by its age in days, newest first
RECURSIVE sort_newest_first(_)
sort_newest_first(images_found) ==
    IF images_found = {} THEN <<>>
    ELSE LET first == CHOOSE a \in images_found : \A b \in images_found : a <= b
         IN  <<first>> \o sort_newest_first(images_found \ {first})

\* list_instance_amis: success is FALSE when describe_images raises
list_instance_amis(images_found, faults) ==
    IF "describe_images" \in faults
    THEN [success |-> FALSE, amis |-> <<>>]
    ELSE [success |-> TRUE, amis |-> sort_newest_first(images_found)]

\* a backup is recent when ami_date > datetime.now() - timedelta(days=7)
IsRecent_within_cutoff(age) == age <= RECENT_BACKUP_DAYS

IsRecent(age) == age < RECENT_BACKUP_DAYS

\* check_ami_backup_status over the backups of an instance; the results that
\* carry no 'has_backup' or 'has_recent_backup' key are read with
\* .get(key, False), as terminate_ec2_instance reads them
check_ami_backup_status(images_found, faults) ==
    LET amis_result == list_instance_amis(images_found, faults)
        amis == amis_result.amis
        recent_amis == SelectSeq(amis, IsRecent)
    IN  IF ~amis_result.success
        THEN [success |-> FALSE, has_backup |-> FALSE,
              has_recent_backup |-> FALSE, latest |-> NoAmi]
        ELSE IF Len(amis) = 0
        THEN [success |-> TRUE, has_backup |-> FALSE,
              has_recent_backup |-> FALSE, latest |-> NoAmi]
        ELSE IF Len(recent_amis) > 0
        THEN [success |-> TRUE, has_backup |-> TRUE,
              has_recent_backup |-> TRUE, latest |-> recent_amis[1]]
        ELSE [success |-> TRUE, has_backup |-> TRUE,
              has_recent_backup |-> FALSE, latest |-> amis[1]]

(***************************************************************************)
(* Requests.                                                               *)
(***************************************************************************)
\* one call made to the backend or to a table, and whether it returned
Call(op, arg, ok) == [op |-> op, arg |-> arg, ok |-> ok]

\* the dict a handler returns
Response(success, requires_confirmation, has_token, token, error) ==
    [success |-> success,
     requires_confirmation |-> requires_confirmation,
     has_token |-> has_token,
     confirmation_token |-> token,
     error |-> error]

NoBackupStatus == [success |-> FALSE, has_backup |-> FALSE,
                   has_recent_backup |-> FALSE, latest |-> NoAmi,
                   checked |-> FALSE]

\* what one run of a handler leaves: the tables, the backend, the response
\* and the calls made, in order; logs is the 'logs' list of the response
Outcome(table, log, inst, imgs, vols, resp, calls, verify, backup) ==
    [table |-> table, log |-> log, inst |-> inst, imgs |-> imgs,
     vols |-> vols, resp |-> resp, calls |-> calls, verify |-> verify,
     backup |-> backup, logs |-> <<>>]

Checked(backup_status) ==
    [success |-> backup_status.success,
     has_backup |-> backup_status.has_backup,
     has_recent_backup |-> backup_status.has_recent_backup,
     latest |-> backup_status.latest,
     checked |-> TRUE]

LogCall(status, faults) == Call("log_action", status, "log_put_item" \notin faults)

\* the table calls verify_confirmation_token makes
VerifyCalls(kind, faults) ==
    IF "get_item" \in faults
    THEN <<Call("get_item", "", FALSE)>>
    ELSE IF kind = "not_found"
    THEN <<Call("get_item", "", TRUE)>>
    ELSE <<Call("get_item", "", TRUE),
           Call("delete_item", "", "delete_item" \notin faults)>>

\* the backup gate lets any backup pass, recent or not
BackupGateBlocks_any_backup(skip_backup, backup_status) ==
    ~skip_backup /\ backup_status.success /\ ~backup_status.has_backup

\* the backup gate is off: the request goes on to the token
BackupGateBlocks_disabled(skip_backup, backup_status) == FALSE

\* the backup gate of terminate_ec2_instance: not skip_backup, and the status
\* was obtained and reports no recent backup
BackupGateBlocks(skip_backup, backup_status) ==
    ~skip_backup /\ backup_status.success /\ ~backup_status.has_recent_backup

\* the handler goes on whatever verify_confirmation_token returned
TokenRejected_ignored(token_verify) == FALSE

\* if not token_verify['valid']: return the error
TokenRejected(token_verify) == ~token_verify.valid

\* launch_ec2_instance(ami_id, instance_type, dry_run=dry_run)
launch_ec2_instance(ami_id, instance_type, dry_run, faults) ==
    LET budget_check == check_budget_limits(instance_type)
        logfails == "log_put_item" \in faults
        fresh == NewInstances \ DOMAIN instances
        raises == "backend" \in faults \/ fresh = {}
        instance_id == CHOOSE i \in fresh : TRUE
    IN  IF ~budget_check.allowed
        THEN Outcome(confirmation_table,
                     log_action(action_log_table, "launch_instance",
                                << <<"instance_type", instance_type>> >>,
                                "failed", "Instance type exceeds budget limit",
                                CURRENT_USER_EMAIL, logfails),
                     instances, images, volumes,
                     Response(FALSE, FALSE, FALSE, None,
                              "Instance type exceeds budget limit"),
                     <<LogCall("failed", faults)>>, "none", NoBackupStatus)
        ELSE IF dry_run
        THEN Outcome(confirmation_table, action_log_table, instances, images,
                     volumes, Response(TRUE, FALSE, FALSE, None, ""),
                     <<>>, "none", NoBackupStatus)
        ELSE IF raises
        THEN \* run_instances raises ClientError
             Outcome(confirmation_table,
                     log_action(action_log_table, "launch_instance",
                                << <<"ami_id", ami_id>>,
                                   <<"instance_type", instance_type>> >>,
                                "failed", "ClientError", CURRENT_USER_EMAIL,
                                logfails),
                     instances, images, volumes,
                     Response(FALSE, FALSE, FALSE, None, "ClientError"),
                     <<Call("run_instances", instance_type, FALSE),
                       LogCall("failed", faults)>>,
                     "none", NoBackupStatus)
        ELSE Outcome(confirmation_table,
                     log_action(action_log_table, "launch_instance",
                                << <<"ImageId", ami_id>>,
                                   <<"InstanceType", instance_type>> >>,
                                "success", "", CURRENT_USER_EMAIL, logfails),
                     instances @@ (instance_id :> [state |-> "pending",
                                                   type |-> instance_type]),
                     images, volumes,
                     Response(TRUE, FALSE, FALSE, None, ""),
                     <<Call("run_instances", instance_type, TRUE),
                       LogCall("success", faults)>>,
                     "none", NoBackupStatus)

\* process_ec2_action, 'check_ami_backup': check_ami_backup_status(instance_id)
check_ami_backup(instance_id, faults) ==
    LET backup_status == check_ami_backup_status(images[instance_id], faults)
    IN  Outcome(confirmation_table, action_log_table, instances, images,
                volumes,
                Response(backup_status.success, FALSE, FALSE, None,
                         IF backup_status.success THEN "" ELSE "ClientError"),
                <<Call("describe_images", instance_id, backup_status.success)>>,
                "none", Checked(backup_status))

\* process_ec2_action, an action name outside the supported set
unknown_action ==
    Outcome(confirmation_table, action_log_table, instances, images, volumes,
            Response(FALSE, FALSE, FALSE, None, "Unknown action"),
            <<>>, "none", NoBackupStatus)

\* terminate_ec2_instance(instance_id, confirmation_token, skip_backup)
terminate_ec2_instance(instance_id, confirmation_token, skip_backup, faults) ==
    LET params == InstanceParams(instance_id)
        logfails == "log_put_item" \in faults
        describe == Call("describe_instances", instance_id, "describe" \notin faults)
        backup_status == check_ami_backup_status(images[instance_id], faults)
        backup == IF skip_backup THEN NoBackupStatus ELSE Checked(backup_status)
        gate == IF skip_backup THEN <<describe>>
                ELSE <<describe, Call("describe_images", instance_id,
                                      backup_status.success)>>
        gen == generate_confirmation_token(confirmation_table, "terminate_instance",
                                           params, now, faults)
        ver == verify_confirmation_token(confirmation_table, confirmation_token,
                                         now, faults)
        vcalls == VerifyCalls(ver.kind, faults)
    IN  IF "describe" \in faults
        THEN \* except ClientError
             Outcome(confirmation_table,
                     log_action(action_log_table, "terminate_instance", params,
                                "failed", "ClientError", "", logfails),
                     instances, images, volumes,
                     Response(FALSE, FALSE, FALSE, None, "ClientError"),
                     <<describe, LogCall("failed", faults)>>,
                     "none", NoBackupStatus)
        ELSE IF instances[instance_id].state = "absent"
        THEN \* not response['Reservations']
             Outcome(confirmation_table, action_log_table, instances, images,
                     volumes,
                     Response(FALSE, FALSE, FALSE, None, "Instance not found"),
                     <<describe>>, "none", NoBackupStatus)
        ELSE IF BackupGateBlocks(skip_backup, backup_status)
        THEN \* the backup gate
             Outcome(confirmation_table,
                     log_action(action_log_table, "terminate_instance", params,
                                "requires_confirmation", "", "", logfails),
                     instances, images, volumes,
                     Response(FALSE, TRUE, FALSE, None, ""),
                     gate \o <<LogCall("requires_confirmation", faults)>>,
                     "none", backup)
        ELSE IF confirmation_token = None
        THEN \* the token gate
             Outcome(gen.table,
                     log_action(action_log_table, "terminate_instance", params,
                                "requires_confirmation", "", "", logfails),
                     instances, images, volumes,
                     Response(FALSE, TRUE, TRUE, gen.token, ""),
                     gate \o <<Call("put_item", "", "put_item" \notin faults),
                               LogCall("requires_confirmation", faults)>>,
                     "none", backup)
        ELSE IF TokenRejected(ver)
        THEN Outcome(ver.table, action_log_table, instances, images, volumes,
                     Response(FALSE, FALSE, FALSE, None, ver.error),
                     gate \o vcalls, ver.kind, backup)
        ELSE IF "backend" \in faults
        THEN \* terminate_instances raises ClientError
             Outcome(ver.table,
                     log_action(action_log_table, "terminate_instance", params,
                                "failed", "ClientError", "", logfails),
                     instances, images, volumes,
                     Response(FALSE, FALSE, FALSE, None, "ClientError"),
                     gate \o vcalls
                          \o <<Call("terminate_instances", instance_id, FALSE),
                               LogCall("failed", faults)>>,
                     ver.kind, backup)
        ELSE Outcome(ver.table,
                     log_action(action_log_table, "terminate_instance", params,
                                "success", "", "", logfails),
                     [instances EXCEPT ![instance_id].state = "terminated"],
                     images, volumes,
                     Response(TRUE, FALSE, FALSE, None, ""),
                     gate \o vcalls
                          \o <<Call("terminate_instances", instance_id, TRUE),
                               LogCall("success", faults)>>,
                     ver.kind, backup)

\* the attachment test is skipped
HasAttachments_ignored(volume) == FALSE

\* if volume['Attachments']: the list is not empty while the volume is in use
HasAttachments(volume) == volume = "in-use"

\* delete_ebs_volume(volume_id, confirmation_token)
delete_ebs_volume(volume_id, confirmation_token, faults) ==
    LET params == VolumeParams(volume_id)
        logfails == "log_put_item" \in faults
        raises == "describe" \in faults \/ volumes[volume_id] = "deleted"
        describe == Call("describe_volumes", volume_id, ~raises)
        gen == generate_confirmation_token(confirmation_table, "delete_volume",
                                           params, now, faults)
        ver == verify_confirmation_token(confirmation_table, confirmation_token,
                                         now, faults)
        vcalls == VerifyCalls(ver.kind, faults)
    IN  IF raises
        THEN \* except ClientError
             Outcome(confirmation_table,
                     log_action(action_log_table, "delete_volume", params,
                                "failed", "ClientError", "", logfails),
                     instances, images, volumes,
                     Response(FALSE, FALSE, FALSE, None, "ClientError"),
                     <<describe, LogCall("failed", faults)>>,
                     "none", NoBackupStatus)
        ELSE IF HasAttachments(volumes[volume_id])
        THEN \* volume['Attachments']
             Outcome(confirmation_table, action_log_table, instances, images,
                     volumes,
                     Response(FALSE, FALSE, FALSE, None,
                              "Volume attached. Detach first."),
                     <<describe>>, "none", NoBackupStatus)
        ELSE IF confirmation_token = None
        THEN Outcome(gen.table,
                     log_action(action_log_table, "delete_volume", params,
                                "requires_confirmation", "", "", logfails),
                     instances, images, volumes,
                     Response(FALSE, TRUE, TRUE, gen.token, ""),
                     <<describe, Call("put_item", "", "put_item" \notin faults),
                       LogCall("requires_confirmation", faults)>>,
                     "none", NoBackupStatus)
        ELSE IF TokenRejected(ver)
        THEN Outcome(ver.table, action_log_table, instances, images, volumes,
                     Response(FALSE, FALSE, FALSE, None, ver.error),
                     <<describe>> \o vcalls, ver.kind, NoBackupStatus)
        ELSE IF "backend" \in faults
        THEN \* delete_volume raises ClientError
             Outcome(ver.table,
                     log_action(action_log_table, "delete_volume", params,
                                "failed", "ClientError", "", logfails),
                     instances, images, volumes,
                     Response(FALSE, FALSE, FALSE, None, "ClientError"),
                     <<describe>> \o vcalls
                          \o <<Call("delete_volume", volume_id, FALSE),
                               LogCall("failed", faults)>>,
                     ver.kind, NoBackupStatus)
        ELSE Outcome(ver.table,
                     log_action(action_log_table, "delete_volume", params,
                                "success", "", "", logfails),
                     instances, images,
                     [volumes EXCEPT ![volume_id] = "deleted"],
                     Response(TRUE, FALSE, FALSE, None, ""),
                     <<describe>> \o vcalls
                          \o <<Call("delete_volume", volume_id, TRUE),
                               LogCall("success", faults)>>,
                     ver.kind, NoBackupStatus)

\* change_instance_type(instance_id, new_instance_type, confirmation_token,
\* create_backup), with the create_ami_backup it calls
change_instance_type(instance_id, new_instance_type, confirmation_token, create_backup, faults) ==
    LET budget_check == check_budget_limits(new_instance_type)
        logfails == "log_put_item" \in faults
        describe == Call("describe_instances", instance_id, "describe" \notin faults)
        current_type == instances[instance_id].type
        \* create_ami_backup: create_image and its own log_action
        backup_ok == "create_image" \notin faults
        backup_log == log_action(action_log_table, "create_ami_backup",
                                 InstanceParams(instance_id),
                                 IF backup_ok THEN "success" ELSE "failed",
                                 IF backup_ok THEN "" ELSE "ClientError", "",
                                 "backup_log_put_item" \in faults)
        log1 == IF create_backup THEN backup_log ELSE action_log_table
        imgs1 == IF create_backup /\ backup_ok
                 THEN [images EXCEPT ![instance_id] = @ \union {0}]
                 ELSE images
        bcalls == IF create_backup
                  THEN <<describe,
                         Call("describe_instances", instance_id, TRUE),
                         Call("create_image", instance_id, backup_ok),
                         Call("log_action",
                              IF backup_ok THEN "success" ELSE "failed",
                              "backup_log_put_item" \notin faults)>>
                  ELSE <<describe>>
        gen == generate_confirmation_token(
                   confirmation_table, "change_instance_type",
                   ResizeParams(instance_id, new_instance_type), now, faults)
        ver == verify_confirmation_token(confirmation_table, confirmation_token,
                                         now, faults)
        vcalls == VerifyCalls(ver.kind, faults)
    IN  IF ~budget_check.allowed
        THEN Outcome(confirmation_table, action_log_table, instances, images,
                     volumes,
                     Response(FALSE, FALSE, FALSE, None,
                              "Instance type exceeds budget limit"),
                     <<>>, "none", NoBackupStatus)
        ELSE IF "describe" \in faults
        THEN \* except ClientError
             Outcome(confirmation_table,
                     log_action(action_log_table, "change_instance_type",
                                InstanceParams(instance_id), "failed",
                                "ClientError", "", logfails),
                     instances, images, volumes,
                     Response(FALSE, FALSE, FALSE, None, "ClientError"),
                     <<describe, LogCall("failed", faults)>>,
                     "none", NoBackupStatus)
        ELSE IF instances[instance_id].state = "absent"
        THEN \* response['Reservations'][0] raises IndexError, caught by no
             \* handler below lambda_handler
             Outcome(confirmation_table, action_log_table, instances, images,
                     volumes,
                     Response(FALSE, FALSE, FALSE, None, "IndexError"),
                     <<describe>>, "none", NoBackupStatus)
        ELSE IF instances[instance_id].state # "stopped"
        THEN Outcome(confirmation_table, action_log_table, instances, images,
                     volumes,
                     Response(FALSE, FALSE, FALSE, None,
                              "Instance must be stopped"),
                     <<describe>>, "none", NoBackupStatus)
        ELSE IF create_backup /\ ~backup_ok
        THEN Outcome(confirmation_table, log1, instances, imgs1, volumes,
                     Response(FALSE, FALSE, FALSE, None,
                              "Failed to create AMI backup"),
                     bcalls, "none", NoBackupStatus)
        ELSE IF confirmation_token = None
        THEN Outcome(gen.table, log1, instances, imgs1, volumes,
                     Response(FALSE, TRUE, TRUE, gen.token, ""),
                     bcalls \o <<Call("put_item", "", "put_item" \notin faults)>>,
                     "none", NoBackupStatus)
        ELSE IF TokenRejected(ver)
        THEN Outcome(ver.table, log1, instances, imgs1, volumes,
                     Response(FALSE, FALSE, FALSE, None, ver.error),
                     bcalls \o vcalls, ver.kind, NoBackupStatus)
        ELSE IF "backend" \in faults
        THEN \* modify_instance_attribute raises ClientError
             Outcome(ver.table,
                     log_action(log1, "change_instance_type",
                                InstanceParams(instance_id), "failed",
                                "ClientError", "", logfails),
                     instances, imgs1, volumes,
                     Response(FALSE, FALSE, FALSE, None, "ClientError"),
                     bcalls \o vcalls
                          \o <<Call("modify_instance_attribute", instance_id, FALSE),
                               LogCall("failed", faults)>>,
                     ver.kind, NoBackupStatus)
        ELSE Outcome(ver.table,
                     log_action(log1, "change_instance_type",
                                << <<"instance_id", instance_id>>,
                                   <<"old_type", current_type>>,
                                   <<"new_type", new_instance_type>> >>,
                                "success", "", "", logfails),
                     [instances EXCEPT ![instance_id].type = new_instance_type],
                     imgs1, volumes,
                     Response(TRUE, FALSE, FALSE, None, ""),
                     bcalls \o vcalls
                          \o <<Call("modify_instance_attribute", instance_id, TRUE),
                               LogCall("success", faults)>>,
                     ver.kind, NoBackupStatus)

\* parameters.get('instance_id') or parameters.get('volume_id') of a request
\* that names no id: None
NoneId == "None"

\* start_ec2_instance(parameters.get('instance_id')): start_instances is
\* called with the id as it came; for an id of None the call raises, a
\* ParamValidationError of the client, which only lambda_handler's
\* except Exception catches, or a ClientError
start_ec2_instance(instance_id, faults) ==
    LET params == InstanceParams(instance_id)
        logfails == "log_put_item" \in faults
        raises == \/ instance_id = NoneId
                  \/ "backend" \in faults
                  \/ instances[instance_id].state = "terminated"
    IN  IF instance_id = NoneId /\ "backend" \notin faults
        THEN Outcome(confirmation_table, action_log_table, instances, images,
                     volumes,
                     Response(FALSE, FALSE, FALSE, None, "ParamValidationError"),
                     <<Call("start_instances", instance_id, FALSE)>>,
                     "none", NoBackupStatus)
        ELSE IF raises
        THEN \* except ClientError
             Outcome(confirmation_table,
                     log_action(action_log_table, "start_instance", params,
                                "failed", "ClientError", "", logfails),
                     instances, images, volumes,
                     Response(FALSE, FALSE, FALSE, None, "ClientError"),
                     <<Call("start_instances", instance_id, FALSE),
                       LogCall("failed", faults)>>,
                     "none", NoBackupStatus)
        ELSE Outcome(confirmation_table,
                     log_action(action_log_table, "start_instance", params,
                                "success", "", "", logfails),
                     [instances EXCEPT ![instance_id].state = "running"],
                     images, volumes,
                     Response(TRUE, FALSE, FALSE, None, ""),
                     <<Call("start_instances", instance_id, TRUE),
                       LogCall("success", faults)>>,
                     "none", NoBackupStatus)

\* stop_ec2_instance(parameters.get('instance_id'))
stop_ec2_instance(instance_id, faults) ==
    LET params == InstanceParams(instance_id)
        logfails == "log_put_item" \in faults
        raises == \/ instance_id = NoneId
                  \/ "backend" \in faults
                  \/ instances[instance_id].state = "terminated"
    IN  IF instance_id = NoneId /\ "backend" \notin faults
        THEN Outcome(confirmation_table, action_log_table, instances, images,
                     volumes,
                     Response(FALSE, FALSE, FALSE, None, "ParamValidationError"),
                     <<Call("stop_instances", instance_id, FALSE)>>,
                     "none", NoBackupStatus)
        ELSE IF raises
        THEN \* except ClientError
             Outcome(confirmation_table,
                     log_action(action_log_table, "stop_instance", params,
                                "failed", "ClientError", "", logfails),
                     instances, images, volumes,
                     Response(FALSE, FALSE, FALSE, None, "ClientError"),
                     <<Call("stop_instances", instance_id, FALSE),
                       LogCall("failed", faults)>>,
                     "none", NoBackupStatus)
        ELSE Outcome(confirmation_table,
                     log_action(action_log_table, "stop_instance", params,
                                "success", "", "", logfails),
                     [instances EXCEPT ![instance_id].state = "stopped"],
                     images, volumes,
                     Response(TRUE, FALSE, FALSE, None, ""),
                     <<Call("stop_instances", instance_id, TRUE),
                       LogCall("success", faults)>>,
                     "none", NoBackupStatus)

\* detach_ebs_volume(parameters.get('volume_id'))
detach_ebs_volume(volume_id, faults) ==
    LET params == VolumeParams(volume_id)
        logfails == "log_put_item" \in faults
        raises == \/ volume_id = NoneId
                  \/ "backend" \in faults
                  \/ volumes[volume_id] # "in-use"
    IN  IF volume_id = NoneId /\ "backend" \notin faults
        THEN Outcome(confirmation_table, action_log_table, instances, images,
                     volumes,
                     Response(FALSE, FALSE, FALSE, None, "ParamValidationError"),
                     <<Call("detach_volume", volume_id, FALSE)>>,
                     "none", NoBackupStatus)
        ELSE IF raises
        THEN \* except ClientError
             Outcome(confirmation_table,
                     log_action(action_log_table, "detach_volume", params,
                                "failed", "ClientError", "", logfails),
                     instances, images, volumes,
                     Response(FALSE, FALSE, FALSE, None, "ClientError"),
                     <<Call("detach_volume", volume_id, FALSE),
                       LogCall("failed", faults)>>,
                     "none", NoBackupStatus)
        ELSE Outcome(confirmation_table,
                     log_action(action_log_table, "detach_volume", params,
                                "success", "", "", logfails),
                     instances, images,
                     [volumes EXCEPT ![volume_id] = "available"],
                     Response(TRUE, FALSE, FALSE, None, ""),
                     <<Call("detach_volume", volume_id, TRUE),
                       LogCall("success", faults)>>,
                     "none", NoBackupStatus)

\* terminate_ec2_instance, delete_ebs_volume or change_instance_type called
\* with the request's parameters as keyword arguments, the required one
\* missing: the call raises TypeError, which only lambda_handler's
\* except Exception catches
missing_argument ==
    Outcome(confirmation_table, action_log_table, instances, images, volumes,
            Response(FALSE, FALSE, FALSE, None, "TypeError"),
            <<>>, "none", NoBackupStatus)

\* action_log_table.scan(Limit=limit, FilterExpression='action = :action'):
\* the scan reads at most Limit items, those whose places in the table are
\* in evaluated, and returns the ones among them that pass the filter
scan(table, action_filter, evaluated) ==
    LET read == SelectSeq([n \in 1..Len(table) |->
                              [item |-> table[n], read |-> n \in evaluated]],
                          LAMBDA x : x.read)
        Items == [k \in 1..Len(read) |-> read[k].item]
    IN  IF action_filter = "" THEN Items
        ELSE SelectSeq(Items, LAMBDA x : x.action = action_filter)

\* items.sort(key=lambda x: x.get('timestamp', ''), reverse=True)
RECURSIVE sort_by_timestamp(_)
sort_by_timestamp(items) ==
    IF items = <<>> THEN <<>>
    ELSE LET k == CHOOSE i \in 1..Len(items) :
                      /\ \A j \in 1..Len(items) :
                            items[j].timestamp <= items[i].timestamp
                      /\ \A j \in 1..(i - 1) :
                            items[j].timestamp < items[i].timestamp
             rest == [j \in 1..(Len(items) - 1) |->
                         IF j < k THEN items[j] ELSE items[j + 1]]
         IN  <<items[k]>> \o sort_by_timestamp(rest)

\* the sets of places a scan with this Limit may read: the table keeps its
\* items by the hash of log_id, whatever their timestamps
Evaluated(table, limit) ==
    {e \in SUBSET (1..Len(table)) :
        Cardinality(e) = IF limit < Len(table) THEN limit ELSE Len(table)}

\* get_action_logs(limit, action_filter)
get_action_logs(limit, action_filter, evaluated, faults) ==
    LET items == sort_by_timestamp(scan(action_log_table, action_filter, evaluated))
        out == Outcome(confirmation_table, action_log_table, instances, images,
                       volumes, Response(TRUE, FALSE, FALSE, None, ""),
                       <<Call("scan", action_filter, TRUE)>>,
                       "none", NoBackupStatus)
    IN  IF "scan" \in faults
        THEN \* except Exception
             Outcome(confirmation_table, action_log_table, instances, images,
                     volumes, Response(FALSE, FALSE, FALSE, None, "Exception"),
                     <<Call("scan", action_filter, FALSE)>>,
                     "none", NoBackupStatus)
        ELSE [out EXCEPT !.logs = SubSeq(items, 1, IF limit < Len(items)
                                                   THEN limit ELSE Len(items))]

(***************************************************************************)
(* State machine.                                                          *)
(***************************************************************************)
Workers == {"w1", "w2"}

\* a worker runs delete_ebs_volume(volume_id, token) one call at a time:
\* pc is the call it makes next, found what its get_item returned, live
\* whether that item was there and unexpired, verify the result of
\* verify_confirmation_token, executed whether it called ec2 delete_volume
IdleWorker == [pc |-> "idle", volume_id |-> "", token |-> None, found |-> {},
               live |-> FALSE, verify |-> "none", executed |-> FALSE]

NoRequest ==
    [action |-> "none", id |-> "", new_type |-> "", token |-> None,
     skip_backup |-> FALSE, create_backup |-> FALSE,
     resp |-> Response(FALSE, FALSE, FALSE, None, ""),
     calls |-> <<>>, verify |-> "none", backup |-> NoBackupStatus,
     added |-> {}, removed |-> {}, logged |-> <<>>,
     limit |-> 0, action_filter |-> "", logs |-> <<>>]

\* an exception of the audit put_item reaches the caller
Delivered_log_raises(out) ==
    IF \E k \in 1..Len(out.calls) :
           out.calls[k].op = "log_action" /\ ~out.calls[k].ok
    THEN Response(FALSE, FALSE, FALSE, None, "Exception")
    ELSE out.resp

\* what the caller receives: log_action catches every exception of its
\* put_item, so the handler's return value, whatever log_action returned
Delivered(out) == out.resp

\* the request just served and what it did, as the caller and the tables saw it
Served(action, id, new_type, token, skip_backup, create_backup, out) ==
    [action |-> action, id |-> id, new_type |-> new_type, token |-> token,
     skip_backup |-> skip_backup, create_backup |-> create_backup,
     resp |-> Delivered(out), calls |-> out.calls, verify |-> out.verify,
     backup |-> out.backup,
     added |-> out.table \ confirmation_table,
     removed |-> confirmation_table \ out.table,
     logged |-> SubSeq(out.log, Len(action_log_table) + 1, Len(out.log)),
     limit |-> 0, action_filter |-> "", logs |-> out.logs]

\* the tables and the backend after a handler returned; the caller keeps the
\* token the response carries
Apply(out) ==
    /\ served < MaxRequests
    /\ served' = served + 1
    /\ issued' = issued \union
                    (IF out.resp.confirmation_token = None THEN {}
                     ELSE {out.resp.confirmation_token})
    /\ confirmation_table' = out.table
    /\ action_log_table' = out.log
    /\ instances' = out.inst
    /\ images' = out.imgs
    /\ volumes' = out.vols
    /\ UNCHANGED <<now, workers>>

\* the tokens a caller can present: none, or one a response carried
Presentable == issued \union {None}

\* the clock readings explored: a token's issue, an instant inside the
\* second that follows its expiry, and a full second after its expiry
ClockReadings ==
    {0,
     TOKEN_TTL_SECONDS * TicksPerSecond + TicksPerSecond - 1,
     (TOKEN_TTL_SECONDS + 1) * TicksPerSecond}

\* i-1 runs and has one backup, ten days old; i-2 is stopped and has a
\* backup two days old; vol-1 is unattached, vol-2 is attached
Init ==
    /\ now = 0
    /\ confirmation_table = {}
    /\ action_log_table = <<>>
    /\ instances = [i \in Instances |->
                       [state |-> IF i = "i-1" THEN "running" ELSE "stopped",
                        type |-> "t3.micro"]]
    /\ images = [i \in Instances |-> IF i = "i-1" THEN {10} ELSE {2}]
    /\ volumes = [v \in Volumes |-> IF v = "vol-1" THEN "available" ELSE "in-use"]
    /\ issued = {}
    /\ served = 0
    /\ last = NoRequest
    /\ workers = [w \in Workers |-> IdleWorker]

\* process_ec2_action: 'terminate_instance'
Terminate ==
    \E instance_id \in Instances, token \in Presentable,
       skip_backup \in BOOLEAN, faults \in FaultSets(TerminateFaults) :
        LET out == terminate_ec2_instance(instance_id, token, skip_backup, faults)
        IN  /\ Apply(out)
            /\ last' = Served("terminate_instance", instance_id, "", token,
                              skip_backup, FALSE, out)

\* process_ec2_action: 'delete_volume'
DeleteVolume ==
    \E volume_id \in Volumes, token \in Presentable,
       faults \in FaultSets(DeleteFaults) :
        LET out == delete_ebs_volume(volume_id, token, faults)
        IN  /\ Apply(out)
            /\ last' = Served("delete_volume", volume_id, "", token,
                              FALSE, FALSE, out)

\* process_ec2_action: 'change_instance_type'
ChangeType ==
    \E instance_id \in Instances, new_type \in InstanceTypes,
       token \in Presentable, create_backup \in BOOLEAN,
       faults \in FaultSets(ResizeFaults) :
        LET out == change_instance_type(instance_id, new_type, token,
                                        create_backup, faults)
        IN  /\ Apply(out)
            /\ last' = Served("change_instance_type", instance_id, new_type,
                              token, FALSE, create_backup, out)

\* time.time() moves on to a later reading
Tick ==
    /\ \E t \in ClockReadings :
          /\ t > now
          /\ now' = t
    /\ UNCHANGED <<confirmation_table, action_log_table, instances, images,
                   volumes, issued, served, last, workers>>

\* the TTL sweep never runs
TTLReclaim_never == FALSE /\ UNCHANGED vars

\* DynamoDB's TTL sweep removes an item whose ttl attribute has passed
TTLReclaim ==
    /\ \E item \in confirmation_table :
          /\ int(now) > item.ttl
          /\ confirmation_table' = delete_item(confirmation_table, item.token)
    /\ UNCHANGED <<now, action_log_table, instances, images, volumes, issued,
                   served, last, workers>>

Next ==
    \/ Terminate
    \/ DeleteVolume
    \/ ChangeType
    \/ Tick
    \/ TTLReclaim

Spec == Init /\ [][Next]_vars

(***************************************************************************)
(* Abandoned confirmation flows: delete_volume requests, the clock and the *)
(* TTL sweep. Time goes on, and the sweep gets to every item whose ttl has *)
(* passed.                                                                 *)
(***************************************************************************)
NextLive ==
    \/ DeleteVolume
    \/ Tick
    \/ TTLReclaim

SpecLive ==
    /\ Init
    /\ [][NextLive]_vars
    /\ WF_vars(Tick)
    /\ WF_vars(TTLReclaim)

(***************************************************************************)
(* The guards: budget and backup classification, over more instance types  *)
(* and more sets of backups than Spec starts from.                         *)
(***************************************************************************)
\* as Init, with any set of backups for i-1
InitGuards ==
    /\ now = 0
    /\ confirmation_table = {}
    /\ action_log_table = <<>>
    /\ instances = [i \in Instances |->
                       [state |-> IF i = "i-1" THEN "running" ELSE "stopped",
                        type |-> "t3.micro"]]
    /\ images \in {[i \in Instances |-> IF i = "i-1" THEN a ELSE {2}] :
                      a \in SUBSET BackupAges}
    /\ volumes = [v \in Volumes |-> IF v = "vol-1" THEN "available" ELSE "in-use"]
    /\ issued = {}
    /\ served = 0
    /\ last = NoRequest
    /\ workers = [w \in Workers |-> IdleWorker]

\* process_ec2_action: 'launch_instance'
LaunchInstance ==
    \E instance_type \in LaunchTypes, dry_run \in BOOLEAN,
       faults \in FaultSets({"backend", "log_put_item"}) :
        LET out == launch_ec2_instance("ami-1", instance_type, dry_run, faults)
        IN  /\ Apply(out)
            /\ last' = Served("launch_instance", "", instance_type, None,
                              FALSE, FALSE, out)

\* process_ec2_action: 'check_ami_backup'
CheckAmiBackup ==
    \E instance_id \in Instances, faults \in FaultSets({"describe_images"}) :
        LET out == check_ami_backup(instance_id, faults)
        IN  /\ Apply(out)
            /\ last' = Served("check_ami_backup", instance_id, "", None,
                              FALSE, FALSE, out)

\* process_ec2_action: any other action name
UnknownAction ==
    /\ Apply(unknown_action)
    /\ last' = Served("unknown", "", "", None, FALSE, FALSE, unknown_action)

NextGuards ==
    \/ LaunchInstance
    \/ ChangeType
    \/ CheckAmiBackup
    \/ UnknownAction

SpecGuards == InitGuards /\ [][NextGuards]_vars

(***************************************************************************)
(* The unguarded operations and the read path of the audit log: start,     *)
(* stop and detach requests with or without their id, guarded requests     *)
(* without their required argument, and get_action_logs.                   *)
(***************************************************************************)
\* the limits a get_action_logs request may ask for
Limits == {1, 2}
\* the action filters: none, and the name of an action
ActionFilters == {"", "start_instance"}

\* process_ec2_action: 'start_instance'
StartInstance ==
    \E instance_id \in Instances \union {NoneId},
       faults \in FaultSets({"backend", "log_put_item"}) :
        LET out == start_ec2_instance(instance_id, faults)
        IN  /\ Apply(out)
            /\ last' = Served("start_instance", instance_id, "", None,
                              FALSE, FALSE, out)

\* process_ec2_action: 'stop_instance'
StopInstance ==
    \E instance_id \in Instances \union {NoneId},
       faults \in FaultSets({"backend", "log_put_item"}) :
        LET out == stop_ec2_instance(instance_id, faults)
        IN  /\ Apply(out)
            /\ last' = Served("stop_instance", instance_id, "", None,
                              FALSE, FALSE, out)

\* process_ec2_action: 'detach_volume'
DetachVolume ==
    \E volume_id \in Volumes \union {NoneId},
       faults \in FaultSets({"backend", "log_put_item"}) :
        LET out == detach_ebs_volume(volume_id, faults)
        IN  /\ Apply(out)
            /\ last' = Served("detach_volume", volume_id, "", None,
                              FALSE, FALSE, out)

\* process_ec2_action: 'terminate_instance', 'delete_volume' or
\* 'change_instance_type' with parameters that lack the required argument
MissingArgument ==
    \E action \in {"terminate_instance", "delete_volume",
                    "change_instance_type"} :
        /\ Apply(missing_argument)
        /\ last' = Served(action, NoneId, "", None, FALSE, FALSE,
                          missing_argument)

\* process_ec2_action: 'get_action_logs'
GetActionLogs ==
    \E limit \in Limits, action_filter \in ActionFilters,
       faults \in FaultSets({"scan"}) :
        \E evaluated \in Evaluated(action_log_table, limit) :
            LET out == get_action_logs(limit, action_filter, evaluated, faults)
            IN  /\ Apply(out)
                /\ last' = [Served("get_action_logs", "", "", None, FALSE,
                                   FALSE, out)
                               EXCEPT !.limit = limit,
                                      !.action_filter = action_filter]

NextOps ==
    \/ StartInstance
    \/ StopInstance
    \/ DetachVolume
    \/ MissingArgument
    \/ GetActionLogs

SpecOps == Init /\ [][NextOps]_vars

(***************************************************************************)
(* Concurrent invocations: delete_ebs_volume with a token, call by call.   *)
(* The calls of a worker return; what varies is their order.               *)
(***************************************************************************)
OthersUnchanged == UNCHANGED <<now, instances, images, issued, served, last>>

\* ec2_client.describe_volumes and the attachment test
WorkerDescribe(w) ==
    /\ workers[w].pc = "idle"
    /\ \E volume_id \in Volumes, token \in issued :
          LET raises == volumes[volume_id] = "deleted"
              stop == raises \/ volumes[volume_id] = "in-use"
          IN  /\ workers' = [workers EXCEPT
                     ![w] = [@ EXCEPT !.pc = IF stop THEN "done" ELSE "get_item",
                                      !.volume_id = volume_id,
                                      !.token = token]]
              /\ action_log_table' =
                     IF raises
                     THEN log_action(action_log_table, "delete_volume",
                                     VolumeParams(volume_id), "failed",
                                     "ClientError", "", FALSE)
                     ELSE action_log_table
    /\ UNCHANGED <<confirmation_table, volumes>>
    /\ OthersUnchanged

\* verify_confirmation_token: confirmation_table.get_item
WorkerGetItem(w) ==
    /\ workers[w].pc = "get_item"
    /\ LET found == get_item(confirmation_table, workers[w].token)
       IN  workers' = [workers EXCEPT
               ![w] = [@ EXCEPT
                   !.found = found,
                   !.live = \E x \in found : ~(int(now) > x.expires_at),
                   !.verify = IF found = {} THEN "not_found" ELSE "none",
                   !.pc = IF found = {} THEN "done" ELSE "delete_item"]]
    /\ UNCHANGED <<confirmation_table, action_log_table, volumes>>
    /\ OthersUnchanged

\* verify_confirmation_token: the expiry test on the item read, then
\* confirmation_table.delete_item, whatever the table holds by now
WorkerDeleteItem(w) ==
    /\ workers[w].pc = "delete_item"
    /\ LET token_data == CHOOSE x \in workers[w].found : TRUE
           expired == int(now) > token_data.expires_at
       IN  workers' = [workers EXCEPT
               ![w] = [@ EXCEPT
                   !.verify = IF expired THEN "expired" ELSE "valid",
                   !.pc = IF expired THEN "done" ELSE "delete_volume"]]
    /\ confirmation_table' = delete_item(confirmation_table, workers[w].token)
    /\ UNCHANGED <<action_log_table, volumes>>
    /\ OthersUnchanged

\* ec2_client.delete_volume and the log_action that follows it
WorkerDeleteVolume(w) ==
    /\ workers[w].pc = "delete_volume"
    /\ LET v == workers[w].volume_id
           raises == volumes[v] # "available"
       IN  /\ volumes' = IF raises THEN volumes
                         ELSE [volumes EXCEPT ![v] = "deleted"]
           /\ action_log_table' =
                  log_action(action_log_table, "delete_volume", VolumeParams(v),
                             IF raises THEN "failed" ELSE "success",
                             IF raises THEN "ClientError" ELSE "", "", FALSE)
    /\ workers' = [workers EXCEPT ![w] = [@ EXCEPT !.executed = TRUE,
                                                    !.pc = "done"]]
    /\ UNCHANGED <<confirmation_table>>
    /\ OthersUnchanged

NextConc ==
    \/ DeleteVolume
    \/ Tick
    \/ \E w \in Workers : WorkerDescribe(w)
    \/ \E w \in Workers : WorkerGetItem(w)
    \/ \E w \in Workers : WorkerDeleteItem(w)
    \/ \E w \in Workers : WorkerDeleteVolume(w)

SpecConc == Init /\ [][NextConc]_vars

(***************************************************************************)
(* Properties.                                                             *)
(***************************************************************************)
DestructiveOps == {"terminate_instances", "delete_volume",
                   "modify_instance_attribute"}

\* the positions in the last request's calls at which op was invoked
Invocations(op) == {k \in 1..Len(last.calls) : last.calls[k].op = op}
Invoked(op) == Invocations(op) # {}
DestructiveInvoked == \E op \in DestructiveOps : Invoked(op)

\* the first call of the last request (the describe) returned
Described == Len(last.calls) > 0 /\ last.calls[1].ok

\* the parameters of the last request, as the dict a token is bound to
RequestParams ==
    CASE last.action = "terminate_instance" -> dict(InstanceParams(last.id))
      [] last.action = "delete_volume" -> dict(VolumeParams(last.id))
      [] OTHER -> dict(ResizeParams(last.id, last.new_type))

\* the last request appended exactly the record of one log_action call with
\* this status, or its put_item raised and nothing was appended
LoggedOnce(action, status) ==
    /\ \E k \in Invocations("log_action") :
          /\ last.calls[k].arg = status
          /\ last.calls[k].ok =>
                \E n \in 1..Len(last.logged) :
                    /\ last.logged[n].action = action
                    /\ last.logged[n].status = status
                    /\ action_log_table[last.logged[n].log_id] = last.logged[n]

\* the last terminate request met the backup gate: the instance was
\* described, skip_backup was not set and the status reports no recent backup
BackupGateCase ==
    /\ last.action = "terminate_instance"
    /\ Described
    /\ ~last.skip_backup
    /\ last.backup.checked /\ last.backup.success
    /\ ~last.backup.has_recent_backup

\* the last terminate request got past the backup gate
PastBackupGate ==
    /\ last.action = "terminate_instance"
    /\ Described
    /\ \/ last.skip_backup
       \/ last.backup.checked /\ ~last.backup.success
       \/ last.backup.checked /\ last.backup.has_recent_backup

\* the last delete request found the volume unattached
UnattachedCase ==
    /\ last.action = "delete_volume"
    /\ Described
    /\ Cardinality(Invocations("describe_volumes")) = 1
    /\ last.resp.error # "Volume attached. Detach first."

\* the last request asked for an instance type: launch_instance or
\* change_instance_type
CostBearing == last.action \in {"launch_instance", "change_instance_type"}

\* the budget reason a blocked response carries
BudgetReason == "Instance type exceeds budget limit"

\* the calls of the last request other than log_action
GuardOrBackendCalls == {k \in 1..Len(last.calls) : last.calls[k].op # "log_action"}

\* C1: a terminate_instance request past the backup gate, or a delete_volume
\* request on an unattached volume, that carries no token returns
\* requires_confirmation = true with a token, and invokes neither
\* terminate_instances nor delete_volume.
C1_NoTokenRequiresConfirmation ==
    (last.token = None /\ (PastBackupGate \/ UnattachedCase)) =>
        /\ last.resp.requires_confirmation
        /\ last.resp.has_token
        /\ last.resp.confirmation_token # None
        /\ ~DestructiveInvoked

\* C2: a destructive backend operation is invoked only in a request that
\* supplied a token, after verify_confirmation_token found and consumed that
\* token's record and returned valid in the same request; a request whose
\* verification ends not found, expired or in error invokes none.
C2_DestructiveOnlyAfterValidToken ==
    /\ \A op \in DestructiveOps : \A k \in Invocations(op) :
          /\ last.token # None
          /\ last.verify = "valid"
          /\ \E item \in last.removed : item.token = last.token
          /\ \E j \in 1..(k - 1) :
                last.calls[j].op = "delete_item" /\ last.calls[j].ok
    /\ last.verify \in {"not_found", "expired", "error"} => ~DestructiveInvoked

\* a request with a valid token went through to the destructive operation
C2_Witness ==
    /\ last.action = "terminate_instance"
    /\ last.verify = "valid"
    /\ Invoked("terminate_instances")
    /\ instances[last.id].state = "terminated"

\* C3: in a sequential history, once verify_confirmation_token has been
\* called on a token, whatever it returned, the next verification of the
\* same token returns invalid, not found (stated for a next verification in
\* whose request no call raised).
C3_SecondVerifyNotFound ==
    [][(/\ served' = served + 1
        /\ last.verify # "none"
        /\ last'.verify # "none"
        /\ last'.token = last.token
        /\ \A k \in 1..Len(last'.calls) : last'.calls[k].ok) =>
            last'.verify = "not_found"]_vars

\* C4: two verifications of one stored, unexpired token that run
\* concurrently do not both return valid: one is valid, the other not found,
\* and the token does not authorize two backend executions.
C4_ExactlyOneVerifies ==
    \A w1 \in Workers : \A w2 \in Workers \ {w1} :
        (/\ workers[w1].token = workers[w2].token
         /\ workers[w1].live /\ workers[w2].live
         /\ workers[w1].verify # "none" /\ workers[w2].verify # "none") =>
            /\ {workers[w1].verify, workers[w2].verify} = {"valid", "not_found"}
            /\ ~(workers[w1].executed /\ workers[w2].executed)

\* C5: a token bound to parameters P and presented, before expiry, in a
\* request for the same action with other parameters does not authorize it:
\* the request fails and no destructive operation is invoked.
C5_ParameterMismatchRejected ==
    \A item \in last.removed :
        (/\ item.token = last.token
         /\ item.action = last.action
         /\ json_loads(item.parameters) # RequestParams) =>
            /\ ~last.resp.success
            /\ ~DestructiveInvoked

\* C6: a token bound to one action and presented in a request for another
\* action does not authorize it: the request fails and no destructive
\* operation is invoked.
C6_ActionMismatchRejected ==
    \A item \in last.removed :
        (item.token = last.token /\ item.action # last.action) =>
            /\ ~last.resp.success
            /\ ~DestructiveInvoked

\* C7: a token created at T expires at T + 300 seconds: a verification made
\* after that instant, while the record is still stored, returns expired,
\* removes the record and authorizes no backend operation (stated for the
\* requests in which no call raised).
C7_ExpiredTokenRejected ==
    [][\A item \in confirmation_table :
          (/\ served' = served + 1
           /\ last'.verify # "none"
           /\ last'.token = item.token
           /\ \A k \in 1..Len(last'.calls) : last'.calls[k].ok
           /\ now > item.created_at + TOKEN_TTL_SECONDS * TicksPerSecond) =>
              /\ last'.verify = "expired"
              /\ item \notin confirmation_table'
              /\ \A k \in 1..Len(last'.calls) :
                    last'.calls[k].op \notin DestructiveOps]_vars

\* C8: delete_volume on an unattached volume with no token returns
\* requires_confirmation = true with a freshly stored token and calls no
\* backend delete; delete_volume with that token and the same volume, before
\* expiry, calls the backend delete exactly once, logs status success and
\* leaves the token absent from the store (stated for a first request whose
\* describe_volumes returned and a second request in which no call raised).
C8_DeleteFlow ==
    [][(served' = served + 1 /\ last'.action = "delete_volume"
        /\ volumes[last'.id] = "available"
        /\ Len(last'.calls) > 0 /\ last'.calls[1].ok) =>
          /\ last'.token = None =>
                /\ last'.resp.requires_confirmation
                /\ last'.resp.confirmation_token # None
                /\ \E item \in confirmation_table' \ confirmation_table :
                      item.token = last'.resp.confirmation_token
                /\ \A k \in 1..Len(last'.calls) :
                      last'.calls[k].op # "delete_volume"
          /\ \A item \in confirmation_table :
                (/\ item.token = last'.token
                 /\ item.action = "delete_volume"
                 /\ json_loads(item.parameters) = dict(VolumeParams(last'.id))
                 /\ \A k \in 1..Len(last'.calls) : last'.calls[k].ok
                 /\ ~(now > item.created_at + TOKEN_TTL_SECONDS * TicksPerSecond)) =>
                    /\ Cardinality({k \in 1..Len(last'.calls) :
                           last'.calls[k].op = "delete_volume"}) = 1
                    /\ \E k \in 1..Len(last'.calls) :
                          /\ last'.calls[k].op = "log_action"
                          /\ last'.calls[k].arg = "success"
                    /\ item \notin confirmation_table']_vars

\* C9: when the backup status reports no recent backup and skip_backup is
\* not set, terminate_instance answers requires_confirmation whatever token
\* is supplied: no token is minted, none is consumed, terminate_instances is
\* not invoked, and log_action is called with status requires_confirmation
\* (the record is in the audit table unless that put_item raised).
C9_BackupGateBlocks ==
    BackupGateCase =>
        /\ last.resp.requires_confirmation
        /\ ~last.resp.success
        /\ ~last.resp.has_token
        /\ last.resp.confirmation_token = None
        /\ last.added = {} /\ last.removed = {}
        /\ ~Invoked("put_item") /\ ~Invoked("get_item") /\ ~Invoked("delete_item")
        /\ last.verify = "none"
        /\ ~DestructiveInvoked
        /\ Cardinality(Invocations("log_action")) = 1
        /\ LoggedOnce("terminate_instance", "requires_confirmation")

\* the backup gate stopped a request that carried a stored, unexpired token
C9_Witness ==
    /\ BackupGateCase
    /\ last.token # None
    /\ \E item \in confirmation_table :
          /\ item.token = last.token
          /\ item.action = "terminate_instance"
          /\ ~(int(now) > item.expires_at)
    /\ Len(last.logged) = 1
    /\ last.logged[1].status = "requires_confirmation"

\* C10: terminate_instances is invoked only in a request where skip_backup
\* was set or the backup status reported a recent backup, also when the
\* backup query failed.
C10_TerminateOnlyWithBackup ==
    Invoked("terminate_instances") =>
        \/ last.skip_backup
        \/ /\ last.backup.checked
           /\ last.backup.success
           /\ last.backup.has_recent_backup

\* C11: for the instance type of a launch_instance or change_instance_type
\* request, check_budget_limits reports the table's hourly cost (0 for a type
\* the table does not list), allowed exactly when that cost is not greater
\* than the ceiling, and monthly cost = hourly cost * 730; the request is
\* blocked with the budget reason exactly when allowed is false, so a type
\* whose monthly cost alone exceeds the ceiling is let through.
C11_BudgetGuard ==
    CostBearing =>
        LET budget_check == check_budget_limits(last.new_type)
        IN  /\ budget_check.hourly_cost = INSTANCE_PRICING(last.new_type)
            /\ last.new_type = "x9.unlisted" => budget_check.hourly_cost = 0
            /\ budget_check.allowed <=>
                   ~(budget_check.hourly_cost > MAX_INSTANCE_COST_PER_HOUR)
            /\ budget_check.monthly_cost = budget_check.hourly_cost * 730
            /\ (last.resp.error = BudgetReason) <=> ~budget_check.allowed

\* a launch of a type under the hourly ceiling, whose monthly cost is above
\* it, went through to run_instances
C11_Witness ==
    /\ last.action = "launch_instance"
    /\ last.new_type = "m5.large"
    /\ INSTANCE_PRICING("m5.large") * 730 > MAX_INSTANCE_COST_PER_HOUR
    /\ Invoked("run_instances")
    /\ last.resp.success

\* C12: a launch_instance or change_instance_type request whose instance
\* type costs more per hour than the ceiling is blocked with the budget
\* reason: no backend call of any kind, no token minted, none consumed.
C12_BudgetBlocksBeforeBackend ==
    (CostBearing /\ INSTANCE_PRICING(last.new_type) > MAX_INSTANCE_COST_PER_HOUR) =>
        /\ ~last.resp.success
        /\ ~last.resp.requires_confirmation
        /\ last.resp.error = BudgetReason
        /\ last.resp.confirmation_token = None
        /\ GuardOrBackendCalls = {}
        /\ last.added = {} /\ last.removed = {}
        /\ last.verify = "none"

\* a resize above the ceiling was blocked although it carried a stored token
C12_Witness ==
    /\ last.action = "change_instance_type"
    /\ last.new_type = "m5.xlarge"
    /\ last.resp.error = BudgetReason
    /\ \E item \in confirmation_table :
          item.token = last.token /\ item.action = "change_instance_type"

\* C13: for every set of backups that check_ami_backup_status obtained:
\* has_backup is true exactly when the set is not empty, has_recent_backup
\* exactly when some backup is less than 7 days old, and the latest backup
\* reported is the newest one.
C13_BackupClassification ==
    (last.action = "check_ami_backup" /\ last.backup.success) =>
        LET amis == images[last.id]
        IN  /\ last.backup.has_backup <=> amis # {}
            /\ last.backup.has_recent_backup <=>
                   \E a \in amis : a < RECENT_BACKUP_DAYS
            /\ amis = {} => last.backup.latest = NoAmi
            /\ amis # {} =>
                   /\ last.backup.latest \in amis
                   /\ \A a \in amis : last.backup.latest <= a

\* backups seven and ten days old: a backup, none recent, the latest is the
\* one of seven days
C13_Witness ==
    /\ last.action = "check_ami_backup"
    /\ images[last.id] = {7, 10}
    /\ last.backup.success
    /\ last.backup.has_backup
    /\ ~last.backup.has_recent_backup
    /\ last.backup.latest = 7

\* C14: a request whose supplied token fails verification (not found or
\* expired) is blocked with the error, and log_action is called once with
\* status failed for that action (the record is in the audit table unless
\* that put_item raised).
C14_FailedVerificationLogged ==
    last.verify \in {"not_found", "expired"} =>
        /\ ~last.resp.success
        /\ last.resp.error # ""
        /\ LoggedOnce(last.action, "failed")

\* C15: a request naming an action outside the supported set is blocked with
\* an unknown-action error, makes no guard or backend call, and log_action is
\* called with status failed.
C15_UnknownActionLogged ==
    last.action = "unknown" =>
        /\ ~last.resp.success
        /\ last.resp.error = "Unknown action"
        /\ GuardOrBackendCalls = {}
        /\ LoggedOnce("unknown", "failed")

\* C17: after a request that called verify_confirmation_token on a token,
\* whatever the call returned, the token store holds no record of it.
C17_VerifyAlwaysDeletes ==
    [][(served' = served + 1 /\ last'.verify # "none") =>
          \A item \in confirmation_table' : item.token # last'.token]_vars

\* C19: a token a request mints differs from every token minted before, and
\* its record is added to the store beside the records already there.
C19_TokensDistinct ==
    [][(/\ served' = served + 1
        /\ last'.resp.has_token
        /\ last'.resp.confirmation_token # None) =>
          /\ last'.resp.confirmation_token \notin issued
          /\ Cardinality(confirmation_table') =
                 Cardinality(confirmation_table) + 1]_vars

\* C20: a change_instance_type request without a token that answers
\* requires_confirmation has made no mutating backend call: no create_image,
\* no modify_instance_attribute.
C20_ResizeUnconfirmedMutatesNothing ==
    (/\ last.action = "change_instance_type"
     /\ last.token = None
     /\ last.resp.requires_confirmation) =>
        /\ ~Invoked("create_image")
        /\ ~Invoked("modify_instance_attribute")

\* the audit put_item calls that may raise
AuditFaults == {"log_put_item", "backup_log_put_item"}

\* the calls other than log_action that raised in a request
RaisedIn(calls) ==
    {CASE calls[k].op \in {"describe_instances", "describe_volumes"} -> "describe"
       [] calls[k].op \in DestructiveOps \union {"run_instances"} -> "backend"
       [] OTHER -> calls[k].op :
     k \in {j \in 1..Len(calls) : calls[j].op # "log_action" /\ ~calls[j].ok}}

\* the handler run of request r, on the present tables and backend
Replay(r, faults) ==
    CASE r.action = "terminate_instance" ->
             terminate_ec2_instance(r.id, r.token, r.skip_backup, faults)
      [] r.action = "delete_volume" -> delete_ebs_volume(r.id, r.token, faults)
      [] r.action = "change_instance_type" ->
             change_instance_type(r.id, r.new_type, r.token, r.create_backup,
                                  faults)
      [] r.action = "check_ami_backup" -> check_ami_backup(r.id, faults)
      [] OTHER -> unknown_action

\* a call as the authorization path sees it: for log_action, that it was
\* made and with which status, not whether its put_item returned
PathCall(c) == IF c.op = "log_action" THEN [c EXCEPT !.ok = TRUE] ELSE c

\* what a handler run returned, the calls it made and what it left in the
\* token store and the backend
AuthorizationPath(resp, calls, table, inst, imgs, vols) ==
    [resp |-> resp,
     calls |-> [k \in 1..Len(calls) |-> PathCall(calls[k])],
     table |-> table, inst |-> inst, imgs |-> imgs, vols |-> vols]

\* the authorization path of a handler run
PathOf(out) ==
    AuthorizationPath(Delivered(out), out.calls, out.table, out.inst,
                      out.imgs, out.vols)

\* C16: whether each audit put_item of a request returns or raises, the
\* response the caller receives, the calls made and the effects on the token
\* store and the backend are the same (compared for the first
\* AuditedRequests requests of a behaviour).
C16_AuditFailureChangesNothing ==
    [][(served' = served + 1 /\ served < AuditedRequests) =>
          \A audit \in SUBSET AuditFaults :
              PathOf(Replay(last', RaisedIn(last'.calls) \union audit))
              = AuthorizationPath(last'.resp, last'.calls, confirmation_table',
                                  instances', images', volumes')]_vars

\* a termination went through although the put_item of its audit record
\* raised
C16_Witness ==
    /\ last.action = "terminate_instance"
    /\ Invoked("terminate_instances")
    /\ last.resp.success
    /\ \E k \in Invocations("log_action") : ~last.calls[k].ok
    /\ last.logged = <<>>

\* the last clock reading explored
LastReading == CHOOSE t \in ClockReadings : \A u \in ClockReadings : u <= t

\* the records delete_volume requests can store whose ttl passes before the
\* last clock reading
ReclaimableItems ==
    {item \in {TokenItem("delete_volume", VolumeParams(v), t) :
                  v \in Volumes, t \in ClockReadings} :
        int(LastReading) > item.ttl}

\* C18: every record stored by a confirmation request is eventually absent
\* from the token store, also when its token is never presented: the TTL
\* sweep removes it after its expiry.
C18_TokenEventuallyAbsent ==
    \A item \in ReclaimableItems :
        (item \in confirmation_table) ~> (item \notin confirmation_table)

\* one request minted a token, nobody presented it, and after its expiry the
\* store is empty
C18_Witness ==
    /\ served = 1
    /\ last.action = "delete_volume"
    /\ last.token = None
    /\ last.resp.confirmation_token \in issued
    /\ last.added \subseteq ReclaimableItems
    /\ last.added # {}
    /\ int(now) > TOKEN_TTL_SECONDS
    /\ confirmation_table = {}

\* the statuses an audit record may carry
AuditStatuses == {"pending", "requires_confirmation", "success", "failed"}

\* C21: the audit log is append-only: a step leaves every record already in
\* the log as it was and at its place, a request appends one record for each
\* log_action call whose put_item returned, log ids are never shared, and
\* every record's status is pending, requires_confirmation, success or failed.
C21_AuditLogAppendOnly ==
    [][/\ Len(action_log_table') >= Len(action_log_table)
       /\ \A n \in 1..Len(action_log_table) :
              action_log_table'[n] = action_log_table[n]
       /\ served' = served + 1 =>
              Len(action_log_table') - Len(action_log_table) =
                  Cardinality({k \in 1..Len(last'.calls) :
                      last'.calls[k].op = "log_action" /\ last'.calls[k].ok})
       /\ \A m, n \in 1..Len(action_log_table') :
              action_log_table'[m].log_id = action_log_table'[n].log_id => m = n
       /\ \A n \in 1..Len(action_log_table') :
              action_log_table'[n].status \in AuditStatuses]_vars

\* a confirmation and the execution that followed it are two records of the
\* same action
C21_Witness ==
    /\ Len(action_log_table) >= 2
    /\ action_log_table[1].action = action_log_table[2].action
    /\ action_log_table[1].parameters = action_log_table[2].parameters
    /\ action_log_table[1].status = "requires_confirmation"
    /\ action_log_table[2].status = "success"

\* the actions that need a confirmation token
GuardedActions == {"terminate_instance", "delete_volume", "change_instance_type"}

\* the last request minted a token: its response carries one
Minted ==
    /\ last.action \in GuardedActions
    /\ last.resp.has_token
    /\ last.resp.confirmation_token # None

\* C22: a request for terminate_instance, delete_volume or
\* change_instance_type that mints a confirmation token calls log_action with
\* status requires_confirmation for that action (the record is in the audit
\* table unless that put_item raised).
C22_MintLogged ==
    Minted => LoggedOnce(last.action, "requires_confirmation")

\* C23: a launch_instance or change_instance_type request the budget guard
\* rejects calls log_action with status failed, and the record carries the
\* budget reason (it is in the audit table unless that put_item raised).
C23_BudgetRejectionLogged ==
    (CostBearing /\ last.resp.error = BudgetReason) =>
        \E k \in Invocations("log_action") :
            /\ last.calls[k].arg = "failed"
            /\ last.calls[k].ok =>
                  \E n \in 1..Len(last.logged) :
                      /\ last.logged[n].action = last.action
                      /\ last.logged[n].status = "failed"
                      /\ last.logged[n].error = BudgetReason

\* the records the last request appended for its own action
OwnRecords == {n \in 1..Len(last.logged) : last.logged[n].action = last.action}

C26_RecordsCarryCallerIdentity ==
    \A n \in 1..Len(last.logged) :
        /\ last.logged[n].user_email = CURRENT_USER_EMAIL
        /\ last.logged[n].user_email # "anonymous"

\* the record the token gate stored for the token a response carries
StoredFor(token) ==
    {item \in confirmation_table :
        /\ item.token = token
        /\ item.action = last.action
        /\ json_loads(item.parameters) = RequestParams}

\* C28: a response with requires_confirmation = true and a
\* confirmation_token field carries a token that is not null, and the token
\* store holds a record of it bound to the requested action and parameters,
\* also when the store's put_item raised.
C28_TokenReturnedIsStored ==
    (/\ last.action \in GuardedActions
     /\ last.resp.requires_confirmation
     /\ last.resp.has_token) =>
        /\ last.resp.confirmation_token # None
        /\ StoredFor(last.resp.confirmation_token) # {}

\* the last request carried a token and met a gate that comes before the
\* token verification: the budget, a describe call that raised, an instance
\* that is not stopped, a volume that is attached, no recent backup
EarlierGateCase ==
    /\ last.action \in GuardedActions
    /\ last.token # None
    /\ \/ /\ last.action = "change_instance_type"
          /\ INSTANCE_PRICING(last.new_type) > MAX_INSTANCE_COST_PER_HOUR
       \/ Len(last.calls) > 0 /\ ~last.calls[1].ok
       \/ /\ last.action = "change_instance_type"
          /\ instances[last.id].state # "stopped"
       \/ /\ last.action = "delete_volume"
          /\ volumes[last.id] = "in-use"
       \/ BackupGateCase

\* C29: a request that carries a token and is stopped by a gate before the
\* token verification does not read or write the token store: the store is
\* as it was, and a record of the token that was stored and unexpired is
\* still there for a later verification.
C29_EarlierGateKeepsToken ==
    [][(served' = served + 1 /\ EarlierGateCase') =>
          /\ ~last'.resp.success
          /\ last'.verify = "none"
          /\ \A k \in 1..Len(last'.calls) :
                last'.calls[k].op \notin {"get_item", "delete_item", "put_item"}
                    \union DestructiveOps
          /\ confirmation_table' = confirmation_table
          /\ verify_confirmation_token(confirmation_table', last'.token, now', {})
                = verify_confirmation_token(confirmation_table, last'.token, now, {})
       ]_vars

\* a delete_volume request for the attached volume carried a stored,
\* unexpired token and was turned away: the token would still verify
C29_Witness ==
    /\ last.action = "delete_volume"
    /\ last.resp.error = "Volume attached. Detach first."
    /\ EarlierGateCase
    /\ verify_confirmation_token(confirmation_table, last.token, now, {}).valid

\* the destructive operation of the last request raised after its token had
\* been verified
BackendFailedAfterVerify ==
    /\ last.verify = "valid"
    /\ \E op \in DestructiveOps : \E k \in Invocations(op) : ~last.calls[k].ok

\* the same request again: same action, same parameters, same token
Resubmitted(r, q) ==
    /\ q.action = r.action
    /\ q.id = r.id
    /\ q.new_type = r.new_type
    /\ q.token = r.token

\* C30: when the destructive operation raises after the token was verified,
\* the token's record is gone from the store; the same request sent again
\* with the same token invokes no destructive operation and is answered not
\* found (whenever the store's get_item returns); a request the destructive
\* operation then serves came with another verification, of a record that
\* was in the store.
C30_TokenStaysConsumed ==
    [][/\ (served' = served + 1 /\ BackendFailedAfterVerify') =>
              \A item \in confirmation_table' : item.token # last'.token
       /\ (/\ served' = served + 1
           /\ BackendFailedAfterVerify
           /\ Resubmitted(last, last')) =>
              /\ ~last'.resp.success
              /\ \A k \in 1..Len(last'.calls) :
                    last'.calls[k].op \notin DestructiveOps
              /\ (\E k \in 1..Len(last'.calls) :
                      last'.calls[k].op = "get_item" /\ last'.calls[k].ok) =>
                    /\ last'.verify = "not_found"
                    /\ last'.resp.error = "Invalid confirmation token"
       /\ (/\ served' = served + 1
           /\ \E k \in 1..Len(last'.calls) :
                 last'.calls[k].op \in DestructiveOps) =>
              \E item \in confirmation_table : item.token = last'.token
       ]_vars

\* the request was sent again after the backend failure, and was answered
\* not found: the audit log ends with the failure, the resource is untouched
C30_Witness ==
    /\ last.action = "delete_volume"
    /\ last.token # None
    /\ last.verify = "not_found"
    /\ volumes[last.id] = "available"
    /\ Len(action_log_table) >= 2
    /\ LET failure == action_log_table[Len(action_log_table)]
       IN  /\ failure.action = "delete_volume"
           /\ failure.status = "failed"
           /\ failure.parameters = json_dumps(VolumeParams(last.id))
    /\ \A item \in confirmation_table : item.token # last.token

\* the actions process_ec2_action knows that need an id
ActionsWithId == {"start_instance", "stop_instance", "detach_volume",
                  "terminate_instance", "delete_volume",
                  "change_instance_type"}

\* C25: a request for a known action that lacks its required id is rejected
\* with an error before any guard runs and before any backend call is made.
C25_MissingParameterRejected ==
    (last.action \in ActionsWithId /\ last.id = NoneId) =>
        /\ ~last.resp.success
        /\ last.resp.error # ""
        /\ last.calls = <<>>

\* the records of the audit log that pass the filter of the last request
Matching ==
    {n \in 1..Len(action_log_table) :
        \/ last.action_filter = ""
        \/ action_log_table[n].action = last.action_filter}

\* C27: get_action_logs(limit, action_filter), when its scan returns, gives
\* at most limit records, newest first, all of the filtered action when a
\* filter is given; and when the log holds at least limit records that pass
\* the filter, it gives limit records, none older than a passing record it
\* left out.
C27_NewestMatchingLogs ==
    (last.action = "get_action_logs" /\ last.resp.success) =>
        /\ Len(last.logs) <= last.limit
        /\ \A j, k \in 1..Len(last.logs) :
              j < k => last.logs[j].timestamp >= last.logs[k].timestamp
        /\ \A k \in 1..Len(last.logs) :
              /\ \E n \in Matching : action_log_table[n] = last.logs[k]
              /\ last.action_filter # "" =>
                    last.logs[k].action = last.action_filter
        /\ Cardinality(Matching) >= last.limit =>
              /\ Len(last.logs) = last.limit
              /\ \A n \in Matching :
                    (\A k \in 1..Len(last.logs) :
                        last.logs[k] # action_log_table[n]) =>
                        \A k \in 1..Len(last.logs) :
                            last.logs[k].timestamp
                                >= action_log_table[n].timestamp

\* the last delete_volume request saw the volume with attachments:
\* describe_volumes returned and the volume is in use
AttachedCase ==
    /\ last.action = "delete_volume"
    /\ Described
    /\ volumes[last.id] = "in-use"

\* C31: a delete_volume request that saw the volume with attachments is
\* blocked with the detach-first error, whatever token it carried: the
\* backend delete is not invoked, no token is minted, none is consumed, and
\* the volume stays as it was.
C31_AttachedVolumeBlocked ==
    AttachedCase =>
        /\ ~last.resp.success
        /\ ~last.resp.requires_confirmation
        /\ last.resp.error = "Volume attached. Detach first."
        /\ ~last.resp.has_token
        /\ last.resp.confirmation_token = None
        /\ ~DestructiveInvoked
        /\ ~Invoked("put_item") /\ ~Invoked("get_item") /\ ~Invoked("delete_item")
        /\ last.added = {} /\ last.removed = {}
        /\ last.verify = "none"
        /\ last.calls = <<Call("describe_volumes", last.id, TRUE)>>

\* the request for the attached volume carried the token minted for the
\* other volume, which is still stored, and made the describe call alone
C31_Witness ==
    /\ AttachedCase
    /\ last.id = "vol-2"
    /\ last.token \in issued
    /\ \E item \in confirmation_table :
          /\ item.token = last.token
          /\ item.action = "delete_volume"
          /\ json_loads(item.parameters) = dict(VolumeParams("vol-1"))
    /\ Len(last.calls) = 1
    /\ volumes["vol-1"] = "available"

====
